---- MODULE Spec2Model ----
(***************************************************************************)
(* ObjectPushEnv (tactile_gym_sim2real/online_experiments/object_push_env)  *)
(* as a state machine: the episode controller (reset / step / close), the   *)
(* goal tracker, the action encoder and scaler, and the RealSense fusion    *)
(* log.  The robot driver (UR5_TacTip), the ArUco tracker and the video     *)
(* writer are external: the model records the calls made on them and draws  *)
(* what they return from small sets.                                        *)
(*                                                                          *)
(* Numbers.  Policy actions are fixed point in units of 1/ActUnit, so       *)
(* min_action = -0.25 is -(ActUnit \div 4).  Scaled commands are fixed      *)
(* point in units of 1/OutUnit (mm, mm/s, and degrees for the angular       *)
(* limits, which the source multiplies by pi/180).  With these units every  *)
(* division of scale_actions is exact.                                      *)
(***************************************************************************)
EXTENDS Integers, Sequences, FiniteSets, TLC

VARIABLES
    movement_mode,        \* env_modes['movement_mode']
    control_mode,         \* env_modes['control_mode']
    max_steps,            \* self._max_steps
    traj_type,            \* self.traj_type
    traj_n_points,        \* self.traj_n_points
    goal_update_rate,     \* self.goal_update_rate
    env_step_counter,     \* self._env_step_counter
    reset_counter,        \* self.reset_counter
    targ_traj_list_id,    \* self.targ_traj_list_id
    traj_pos_workframe,   \* self.traj_pos_workframe, rows 0..n-1
    traj_rpy_workframe,   \* self.traj_rpy_workframe, rows 0..n-1
    goal_pos_workframe,   \* self.goal_pos_workframe
    goal_rpy_workframe,   \* self.goal_rpy_workframe
    observation,          \* self._observation (the goal features it carries)
    rs,                   \* self.rs: the seven tracking lists
    rs_is_array,          \* the lists were converted by np.array (save_rs_data)
    encoded_actions,      \* last value of encoded_actions
    scaled_actions,       \* last value of scaled_actions
    ur5,                  \* calls made on self._UR5: reset, close, position, velocity
    rs_vid_out,           \* calls made on self.rs_vid_out: write, release
    rs_save_calls,        \* calls of self.rs.save
    rs_tracker,           \* calls made on self.rs_tracker: track
    last_op,              \* the call that ran last: init, reset, step, close, ...
    last_status,          \* how it ended: returned, exit (sys.exit), or the exception
    ret_done,             \* the `done` the last returning step() returned
    calls_in_episode,     \* caller's count of step() calls since the last reset()
    track_result,         \* what rs_tracker.track() did in the last step
    no_marker_run,        \* consecutive step() calls in which no marker was reported
    action_in,            \* the raw input of the last encode / scale call
    step_trace,           \* what the last step() did, in the order it did it
    steps_completed,      \* caller's count of step() calls that returned, all episodes
    current_TCP_pose,     \* yaw of the pose array self._UR5 holds, in degrees
    pose_shared,          \* self._UR5.current_TCP_pose hands out that array itself
    robot_pose,           \* yaw of robot_pose in get_feature_obs: as obtained, as left
    feature_array,        \* TCP yaw of the last feature_array, in units of pi/180
    feature_calls         \* get_feature_obs calls since the last driver command

vars == <<movement_mode, control_mode, max_steps, traj_type, traj_n_points,
          goal_update_rate, env_step_counter, reset_counter, targ_traj_list_id,
          traj_pos_workframe, traj_rpy_workframe, goal_pos_workframe,
          goal_rpy_workframe, observation, rs, rs_is_array, encoded_actions,
          scaled_actions, ur5, rs_vid_out, rs_save_calls, rs_tracker, last_op,
          last_status,
          ret_done, calls_in_episode, track_result, no_marker_run, action_in,
          step_trace, steps_completed, current_TCP_pose, pose_shared,
          robot_pose, feature_array, feature_calls>>

pose_vars == <<current_TCP_pose, pose_shared, robot_pose, feature_array,
               feature_calls>>

config == <<movement_mode, control_mode, max_steps, traj_type, traj_n_points,
            goal_update_rate>>

(***************************************************************************)
(* Bounds of the model.                                                     *)
(***************************************************************************)
\* step() calls in one session
MaxTicks == 3
\* reset() calls after construction (sin trajectories)
MaxResets == 1
\* reset() calls after construction (straight trajectories)
MaxResetsStraight == 9
\* close() calls in one session
\* get_feature_obs calls between two driver commands
MaxFeatureCalls == 3

MaxCloses == 2

\* Parameters of a run.  max_steps is the constructor's argument.
\* setup_traj assigns traj_n_points and goal_update_rate from literals (10
\* and 50); the model takes them as parameters of the run, over small values,
\* so that goal advances and the clamp at the last waypoint happen within
\* MaxTicks steps.
MaxStepsChoices == {2}
PointsChoices == {2, 3}
RateChoices == {1, 2}

(***************************************************************************)
(* Constants of the program.                                                *)
(***************************************************************************)
None == "None"
ActUnit == 10 * 10
OutUnit == 5 * 10

MovementModes == {"y", "yRz", "xyRz", "TyRz", "TxTyRz"}
ControlModes == {"TCP_position_control", "TCP_velocity_control"}

save_rs_data_flag == TRUE
sensor_offset_ang == 45

min_action == -(ActUnit \div 4)
max_action == ActUnit \div 4

(***************************************************************************)
(* Action encoding: get_act_dim, encode_work_frame_actions,                 *)
(* get_tip_direction_workframe, encode_TCP_frame_actions.  A 6-vector is a  *)
(* sequence <<x, y, z, roll, pitch, yaw>>: Python index i is index i+1.     *)
(***************************************************************************)
Zeros6 == <<0, 0, 0, 0, 0, 0>>

get_act_dim(mode) ==
    IF mode = "y" THEN 1
    ELSE IF mode = "yRz" THEN 2
    ELSE IF mode = "xyRz" THEN 3
    ELSE IF mode = "TyRz" THEN 2
    ELSE 3

\* np.cos / np.sin of an angle in degrees, on the multiples of 90 the model
\* draws tool yaws from (the float results differ from these by < 1e-16).
CosDeg(a) ==
    LET m == a % 360 IN IF m = 0 THEN 1 ELSE IF m = 180 THEN -1 ELSE 0

SinDeg(a) ==
    LET m == a % 360 IN IF m = 90 THEN 1 ELSE IF m = 270 THEN -1 ELSE 0

\* <<workframe_par_tip_direction, workframe_perp_tip_direction>>
get_tip_direction_workframe(tcp_yaw) ==
    LET par_ang  == tcp_yaw + sensor_offset_ang
        perp_ang == tcp_yaw + sensor_offset_ang - 90
    IN  << <<CosDeg(par_ang), SinDeg(par_ang), 0>>,
           <<CosDeg(perp_ang), SinDeg(perp_ang), 0>> >>

\* a work-frame encoder that writes the lateral action one slot too far
EncodeWorkFrameShifted(mode, actions) ==
    IF mode = "y"
    THEN [Zeros6 EXCEPT ![1] = max_action, ![3] = actions[1]]
    ELSE IF mode = "yRz"
    THEN [Zeros6 EXCEPT ![1] = max_action, ![3] = actions[1], ![6] = actions[2]]
    ELSE [Zeros6 EXCEPT ![1] = actions[1], ![3] = actions[2], ![6] = actions[3]]

encode_work_frame_actions(mode, actions) ==
    LET e0 == Zeros6
        e1 == IF mode = "y"
              THEN [e0 EXCEPT ![1] = max_action, ![2] = actions[1]]
              ELSE e0
    IN  IF mode = "yRz"
        THEN [e1 EXCEPT ![1] = max_action, ![2] = actions[1], ![6] = actions[2]]
        ELSE IF mode = "xyRz"
        THEN [e1 EXCEPT ![1] = actions[1], ![2] = actions[2], ![6] = actions[3]]
        ELSE e1

encode_TCP_frame_actions(mode, actions, tcp_yaw) ==
    LET dirs == get_tip_direction_workframe(tcp_yaw)
        par  == dirs[1]
        perp == dirs[2]
        e0   == Zeros6
    IN  IF mode = "TyRz"
        THEN LET perp_scale == actions[1]
                 par_scale  == 1 * max_action
             IN  [e0 EXCEPT
                    ![1] = e0[1] + perp[1] * perp_scale + par[1] * par_scale,
                    ![2] = e0[2] + perp[2] * perp_scale + par[2] * par_scale,
                    ![6] = e0[6] + actions[2]]
        ELSE IF mode = "TxTyRz"
        THEN LET perp_scale == actions[2]
                 par_scale  == actions[1]
             IN  [e0 EXCEPT
                    ![1] = e0[1] + perp[1] * perp_scale + par[1] * par_scale,
                    ![2] = e0[2] + perp[2] * perp_scale + par[2] * par_scale,
                    ![6] = e0[6] + actions[3]]
        ELSE e0

\* step(), lines 559-562: the encoder step() selects for the movement mode
EncodeSelected(mode, actions, tcp_yaw) ==
    IF mode \in {"y", "yRz", "xyRz"}
    THEN encode_work_frame_actions(mode, actions)
    ELSE encode_TCP_frame_actions(mode, actions, tcp_yaw)

(***************************************************************************)
(* Action scaling: setup_action_space and scale_actions.                    *)
(***************************************************************************)
max_pos_change == 1 * OutUnit            \* 1 mm per step
max_ang_change == 1 * OutUnit            \* 1 degree per step
max_pos_vel    == 5 * OutUnit            \* 5 mm/s
max_ang_vel    == (5 * OutUnit) \div 2   \* 2.5 degrees/s

\* ranges with x and y pinned to zero in position control
ActRangeNoTranslation(mode) ==
    IF mode = "TCP_position_control"
    THEN << <<0, 0>>, <<0, 0>>, <<0, 0>>, <<0, 0>>, <<0, 0>>,
            <<-max_ang_change, max_ang_change>> >>
    ELSE << <<-max_pos_vel, max_pos_vel>>,
            <<-max_pos_vel, max_pos_vel>>,
            <<0, 0>>, <<0, 0>>, <<0, 0>>,
            <<-max_ang_vel, max_ang_vel>> >>

\* the per-axis <<min, max>> pairs setup_action_space assigns, in axis order
ActRange(mode) ==
    IF mode = "TCP_position_control"
    THEN << <<-max_pos_change, max_pos_change>>,
            <<-max_pos_change, max_pos_change>>,
            <<0, 0>>, <<0, 0>>, <<0, 0>>,
            <<-max_ang_change, max_ang_change>> >>
    ELSE << <<-max_pos_vel, max_pos_vel>>,
            <<-max_pos_vel, max_pos_vel>>,
            <<0, 0>>, <<0, 0>>, <<0, 0>>,
            <<-max_ang_vel, max_ang_vel>> >>

\* np.clip(a, min_action, max_action) on one component
Clip(a) == IF a < min_action THEN min_action
           ELSE IF a > max_action THEN max_action ELSE a

input_range == max_action - min_action

\* a scaling that adds min_action where the source adds the axis minimum
ScaleAxisWrongOffset(a, act_min, act_max) ==
    (((Clip(a) - min_action) * (act_max - act_min)) \div input_range) + min_action

ScaleAxis(a, act_min, act_max) ==
    (((Clip(a) - min_action) * (act_max - act_min)) \div input_range) + act_min

scale_actions(mode, actions) ==
    [i \in 1..6 |-> ScaleAxis(actions[i], ActRange(mode)[i][1], ActRange(mode)[i][2])]

(***************************************************************************)
(* Trajectories and the goal.  A row of traj_pos_workframe or               *)
(* traj_rpy_workframe is kept symbolically, as the (shape, variant, index)  *)
(* its floats are computed from; `variant` is the direction angle in units  *)
(* of pi/8 (straight) or the sign curve_dir (curve, sin).                   *)
(***************************************************************************)
Row(kind, shape, variant, i) ==
    [kind |-> kind, shape |-> shape, variant |-> variant, i |-> i]

\* np.zeros(shape=(n, 3))
ZerosArray(kind, n) == [i \in 0..(n - 1) |-> Row(kind, "zeros", 0, 0)]

\* traj_angs, in units of pi/8; Python index i is index i+1
traj_angs == <<-1, 0, 1, 0>>

\* int(self.reset_counter / 2)
TrajIdx(rc) == rc \div 2

GeneratedTraj(shape, variant, n) ==
    [status |-> "ok",
     pos |-> [i \in 0..(n - 1) |-> Row("pos", shape, variant, i)],
     rpy |-> [i \in 0..(n - 1) |-> Row("rpy", shape, variant, i)]]

\* traj_angs[traj_idx] raises IndexError in the first pass of the loop when
\* traj_idx is past the end of the list: the arrays are still all zeros.
load_trajectory_straight(rc, n) ==
    LET traj_idx == TrajIdx(rc)
    IN  IF traj_idx + 1 \in DOMAIN traj_angs
        THEN GeneratedTraj("straight", traj_angs[traj_idx + 1], n)
        ELSE [status |-> "IndexError",
              pos |-> ZerosArray("pos", n), rpy |-> ZerosArray("rpy", n)]

load_trajectory_curve(rc, n) ==
    LET traj_idx  == TrajIdx(rc)
        curve_dir == IF traj_idx % 2 = 0 THEN -1 ELSE 1
    IN  GeneratedTraj("curve", curve_dir, n)

load_trajectory_sin(rc, n) ==
    LET traj_idx  == TrajIdx(rc)
        curve_dir == IF traj_idx % 2 = 0 THEN -1 ELSE 1
    IN  GeneratedTraj("sin", curve_dir, n)

\* setup_traj, lines 333-340
LoadTrajectory(shape, rc, n) ==
    IF shape = "straight" THEN load_trajectory_straight(rc, n)
    ELSE IF shape = "curve" THEN load_trajectory_curve(rc, n)
    ELSE load_trajectory_sin(rc, n)

\* an update_goal that increments without clamping at the last waypoint
UpdateGoalNoClamp(id, n) == id + 1

\* an update_goal that clamps but does not increment
UpdateGoalNoIncrement(id, n) == IF id >= n - 1 THEN n - 1 ELSE id

\* update_goal, lines 421-424: the new targ_traj_list_id
update_goal(id, n) ==
    LET inc == id + 1 IN IF inc >= n - 1 THEN n - 1 ELSE inc

\* update_goal, lines 427-428: the row read at the index
ReadRow(arr, id) ==
    IF id \in DOMAIN arr THEN arr[id] ELSE Row("IndexError", "none", 0, id)

\* a goal advance that is due one step after each multiple of the rate
GoalDueOneLate(counter, rate) == (counter - 1) % rate = 0

\* step(), line 580: the goal advances when the counter is a multiple of the rate
GoalDue(counter, rate) == counter % rate = 0

\* a termination() that compares with > instead of >=
TerminationStrict(counter, limit) == counter > limit

\* termination()
termination(counter, limit) == counter >= limit

\* get_observation / get_feature_obs: the goal features of the observation
get_observation(goal_pos, goal_rpy) == [goal_pos |-> goal_pos, goal_rpy |-> goal_rpy]

(***************************************************************************)
(* The tracker and the fusion log.                                          *)
(***************************************************************************)
TrackErrors == {"ColorFrameError", "DepthFrameError", "DistanceError",
                "NoMarkersDetected", "MultipleMarkersDetected"}

\* what track() can do: raise one of its errors, or return and expose a
\* centroid position and a pose, each of which may be None
TrackOutcomes ==
    [raised : TrackErrors, centroid_position : {None}, pose : {None}]
    \cup { [raised |-> None, centroid_position |-> "cam_centroid", pose |-> "cam_pose"],
           [raised |-> None, centroid_position |-> None, pose |-> "cam_pose"],
           [raised |-> None, centroid_position |-> None, pose |-> None] }

\* lines 203-206 and 209-211: T_base_cam applied to a camera-frame value
ToBase(cam_value, base_value) == IF cam_value # None THEN base_value ELSE None

EmptyLog == [corners |-> <<>>, ids |-> <<>>, centroids |-> <<>>,
             cam_centroids |-> <<>>, base_centroids |-> <<>>,
             cam_poses |-> <<>>, base_poses |-> <<>>]

\* a tick that leaves the base-frame lists alone when the camera-frame value
\* is absent
AppendTickSkipsAbsent(log, t) ==
    LET cam_centroid == t.centroid_position
        cam_pose     == t.pose
    IN  [corners        |-> Append(log.corners, "corners"),
         ids            |-> Append(log.ids, "ids"),
         centroids      |-> Append(log.centroids, "centroid"),
         cam_centroids  |-> Append(log.cam_centroids, cam_centroid),
         base_centroids |-> IF cam_centroid # None
                            THEN Append(log.base_centroids, "base_centroid")
                            ELSE log.base_centroids,
         cam_poses      |-> Append(log.cam_poses, cam_pose),
         base_poses     |-> IF cam_pose # None
                            THEN Append(log.base_poses, "base_pose")
                            ELSE log.base_poses]

\* lines 201-220: the seven appends of one tick
AppendTick(log, t) ==
    LET cam_centroid  == t.centroid_position
        base_centroid == ToBase(cam_centroid, "base_centroid")
        cam_pose      == t.pose
        base_pose     == ToBase(cam_pose, "base_pose")
    IN  [corners        |-> Append(log.corners, "corners"),
         ids            |-> Append(log.ids, "ids"),
         centroids      |-> Append(log.centroids, "centroid"),
         cam_centroids  |-> Append(log.cam_centroids, cam_centroid),
         base_centroids |-> Append(log.base_centroids, base_centroid),
         cam_poses      |-> Append(log.cam_poses, cam_pose),
         base_poses     |-> Append(log.base_poses, base_pose)]

\* an except clause that takes only NoMarkersDetected as fatal and lets the
\* tick go on after the other errors
TrackAbortsOnlyNoMarker(t) == t.raised = "NoMarkersDetected"

\* lines 190-195: track() raised one of the errors the except clause names,
\* and get_realsense_data ends the run with sys.exit
TrackAborts(t) == t.raised \in TrackErrors

\* a step() that advances the goal before it reads the observation
StepTraceGoalFirst(control, advance, t, is_array) ==
    <<IF control = "TCP_position_control"
      THEN "apply_position_action" ELSE "apply_velocity_action">>
    \o (IF advance THEN <<"update_goal">> ELSE <<>>)
    \o <<"get_observation">>
    \o (IF save_rs_data_flag THEN <<"track">> ELSE <<>>)
    \o (IF save_rs_data_flag /\ ~TrackAborts(t) /\ ~is_array
        THEN <<"append">> ELSE <<>>)

\* step(), lines 568-585: the calls of one step() in program order.  The
\* command goes to one entry point of the driver (569-573), the observation
\* is read (578), update_goal runs when it is due (580-581), then
\* get_realsense_data calls track() and, unless that ended the run or the
\* lists are arrays already, appends the tick (584-585, 214-220)
StepTrace(control, advance, t, is_array) ==
    <<IF control = "TCP_position_control"
      THEN "apply_position_action" ELSE "apply_velocity_action">>
    \o <<"get_observation">>
    \o (IF advance THEN <<"update_goal">> ELSE <<>>)
    \o (IF save_rs_data_flag THEN <<"track">> ELSE <<>>)
    \o (IF save_rs_data_flag /\ ~TrackAborts(t) /\ ~is_array
        THEN <<"append">> ELSE <<>>)

\* track() was not called
NoTrack == [raised |-> "not called", centroid_position |-> None, pose |-> None]

\* the tracker reported no marker: NoMarkersDetected, or nothing detected
NoMarkerReported(t) ==
    \/ t.raised = "NoMarkersDetected"
    \/ t.raised = None /\ t.centroid_position = None /\ t.pose = None

(***************************************************************************)
(* The feature observation and the pose it reads.                           *)
(***************************************************************************)
\* lines 636-641 on the yaw: robot_pose is what the driver handed out,
\* robot_pose[5] -= sensor_offset_ang works on that array, and the feature is
\* robot_pose[5] * pi/180
get_feature_obs(held, shared) ==
    LET obtained == held
        left     == obtained - sensor_offset_ang
    IN  [current_TCP_pose |-> IF shared THEN left ELSE held,
         robot_pose       |-> [obtained |-> obtained, left |-> left],
         feature_array    |-> left]

\* __init__, lines 126 and 129: reset() and setup_observation_space() each
\* call get_feature_obs after the driver has been brought to its home pose
PoseAfterInit(home, shared) ==
    LET first  == get_feature_obs(home, shared)
        second == get_feature_obs(first.current_TCP_pose, shared)
    IN  /\ pose_shared = shared
        /\ current_TCP_pose = second.current_TCP_pose
        /\ robot_pose = second.robot_pose
        /\ feature_array = second.feature_array
        /\ feature_calls = 2

(***************************************************************************)
(* Inputs the model draws.                                                  *)
(***************************************************************************)
\* what step() is called with, and the tool yaw the driver reports then:
\* every component of the action -0.1 with the yaw at -45 degrees, or every
\* component 0.5 (outside [min_action, max_action]) with the yaw at 45
StepInputs(mode) ==
    { [action |-> [i \in 1..get_act_dim(mode) |-> -(ActUnit \div 10)], tcp_yaw |-> -45],
      [action |-> [i \in 1..get_act_dim(mode) |-> ActUnit \div 2], tcp_yaw |-> 45] }

\* components of a raw vector passed to the encoders and to scale_actions
ActVals == {-ActUnit, min_action, 0, ActUnit \div 10, max_action, ActUnit \div 2}

\* the yaw of self._UR5.current_TCP_pose, in degrees
YawVals == {-45, 45, 135}

\* the yaw the driver holds after its reset().  Spec, SpecStraight and SpecAct
\* take the yaw a step() reads as an input (StepInputs, YawVals), which covers
\* whatever the pose holds; the pose itself is followed in SpecObs.
HomeYaw == sensor_offset_ang

\* components of a raw 6-vector passed to scale_actions: below, inside and
\* above [min_action, max_action]
ScaleVals == {-ActUnit, ActUnit \div 10, ActUnit \div 2}

SeqsOf(S, n) == [1..n -> S]

NoInput == [actions |-> <<>>, tcp_yaw |-> 0]

\* the movement modes whole sessions are run in: one work-frame mode and one
\* tool-frame mode (the encoders are checked in all five modes, see SpecAct)
SessionModes == {"y", "TxTyRz"}

(***************************************************************************)
(* The state after __init__, which calls reset() once (lines 42-132).       *)
(***************************************************************************)
InitShape(shape, modes) ==
    /\ movement_mode \in modes
    /\ control_mode \in ControlModes
    /\ max_steps \in MaxStepsChoices
    /\ traj_type = shape
    /\ traj_n_points \in PointsChoices
    /\ goal_update_rate \in RateChoices
    /\ env_step_counter = 0
    /\ reset_counter = 0
    /\ LET t  == LoadTrajectory(shape, 0, traj_n_points)
           id == update_goal(0, traj_n_points)
       IN  /\ traj_pos_workframe = t.pos
           /\ traj_rpy_workframe = t.rpy
           /\ targ_traj_list_id = id
           /\ goal_pos_workframe = ReadRow(t.pos, id)
           /\ goal_rpy_workframe = ReadRow(t.rpy, id)
           /\ observation = get_observation(ReadRow(t.pos, id), ReadRow(t.rpy, id))
    /\ rs = EmptyLog
    /\ rs_is_array = FALSE
    /\ encoded_actions = Zeros6
    /\ scaled_actions = Zeros6
    /\ ur5 = [reset |-> 1, close |-> 0, position |-> 0, velocity |-> 0]
    /\ rs_vid_out = [write |-> 0, release |-> 0]
    /\ rs_save_calls = 0
    /\ rs_tracker = [track |-> 0]
    /\ last_op = "init"
    /\ last_status = "returned"
    /\ ret_done = FALSE
    /\ calls_in_episode = 0
    /\ track_result = NoTrack
    /\ no_marker_run = 0
    /\ action_in = NoInput
    /\ step_trace = <<>>
    /\ steps_completed = 0

\* line 68: self.traj_type = 'sin'
Init == InitShape("sin", SessionModes) /\ PoseAfterInit(HomeYaw, FALSE)

\* line 66, the alternative the source keeps commented out
InitStraight == InitShape("straight", {"TxTyRz"}) /\ PoseAfterInit(HomeYaw, FALSE)

(***************************************************************************)
(* reset(), with setup_traj and update_goal (lines 431-450, 322-347).       *)
(***************************************************************************)
\* encoded_actions and scaled_actions are locals of step(), and ret_done,
\* track_result, no_marker_run and step_trace describe the last step(): a reset() or a
\* close() leaves none of them behind.
PerCallCleared ==
    /\ encoded_actions' = Zeros6
    /\ scaled_actions' = Zeros6
    /\ ret_done' = FALSE
    /\ track_result' = NoTrack
    /\ no_marker_run' = 0
    /\ step_trace' = <<>>

Reset(bound) ==
    /\ last_status # "exit"
    /\ reset_counter < bound
    /\ env_step_counter' = 0
    /\ reset_counter' = reset_counter + 1
    /\ ur5' = [ur5 EXCEPT !.reset = @ + 1]
    /\ LET t == LoadTrajectory(traj_type, reset_counter + 1, traj_n_points)
       IN  /\ traj_pos_workframe' = t.pos
           /\ traj_rpy_workframe' = t.rpy
           /\ IF t.status = "ok"
              THEN LET id == update_goal(0, traj_n_points)
                   IN  /\ targ_traj_list_id' = id
                       /\ goal_pos_workframe' = ReadRow(t.pos, id)
                       /\ goal_rpy_workframe' = ReadRow(t.rpy, id)
                       /\ observation' = get_observation(ReadRow(t.pos, id),
                                                         ReadRow(t.rpy, id))
                       /\ last_status' = "returned"
              ELSE /\ targ_traj_list_id' = 0
                   /\ UNCHANGED <<goal_pos_workframe, goal_rpy_workframe, observation>>
                   /\ last_status' = t.status
    /\ last_op' = "reset"
    /\ calls_in_episode' = 0
    /\ PerCallCleared
    /\ UNCHANGED <<config, rs, rs_is_array, rs_vid_out, rs_save_calls, rs_tracker,
                   action_in, steps_completed, pose_vars>>

(***************************************************************************)
(* step(action), with get_realsense_data (lines 556-587, 188-224).          *)
(***************************************************************************)
StepCalls == ur5.position + ur5.velocity

Step ==
    /\ last_status # "exit"
    /\ StepCalls < MaxTicks
    /\ \E in \in StepInputs(movement_mode), t \in TrackOutcomes :
         LET enc     == EncodeSelected(movement_mode, in.action, in.tcp_yaw)
             scaled  == scale_actions(control_mode, enc)
             counter == env_step_counter + 1
             done    == termination(counter, max_steps)
             advance == GoalDue(counter, goal_update_rate)
             id      == IF advance
                        THEN update_goal(targ_traj_list_id, traj_n_points)
                        ELSE targ_traj_list_id
         IN  /\ encoded_actions' = enc
             /\ scaled_actions' = scaled
             /\ env_step_counter' = counter
             /\ ur5' = IF control_mode = "TCP_position_control"
                       THEN [ur5 EXCEPT !.position = @ + 1]
                       ELSE [ur5 EXCEPT !.velocity = @ + 1]
             /\ observation' = get_observation(goal_pos_workframe, goal_rpy_workframe)
             /\ targ_traj_list_id' = id
             /\ IF advance
                THEN /\ goal_pos_workframe' = ReadRow(traj_pos_workframe, id)
                     /\ goal_rpy_workframe' = ReadRow(traj_rpy_workframe, id)
                ELSE UNCHANGED <<goal_pos_workframe, goal_rpy_workframe>>
             /\ track_result' = IF save_rs_data_flag THEN t ELSE track_result
             /\ rs_tracker' = IF save_rs_data_flag
                              THEN [rs_tracker EXCEPT !.track = @ + 1]
                              ELSE rs_tracker
             /\ no_marker_run' = IF save_rs_data_flag /\ NoMarkerReported(t)
                                 THEN no_marker_run + 1 ELSE 0
             /\ step_trace' = StepTrace(control_mode, advance, t, rs_is_array)
             /\ IF ~save_rs_data_flag
                THEN /\ UNCHANGED <<rs, rs_vid_out>>
                     /\ last_status' = "returned"
                     /\ ret_done' = done
                     /\ steps_completed' = steps_completed + 1
                ELSE IF TrackAborts(t)
                THEN \* print(e); sys.exit('Issue with Realsense Tracking.')
                     /\ UNCHANGED <<rs, rs_vid_out, ret_done, steps_completed>>
                     /\ last_status' = "exit"
                ELSE IF rs_is_array
                THEN \* self.rs.corners is an ndarray: no attribute 'append'
                     /\ UNCHANGED <<rs, rs_vid_out, ret_done, steps_completed>>
                     /\ last_status' = "AttributeError"
                ELSE /\ rs' = AppendTick(rs, t)
                     /\ rs_vid_out' = [rs_vid_out EXCEPT !.write = @ + 1]
                     /\ last_status' = "returned"
                     /\ ret_done' = done
                     /\ steps_completed' = steps_completed + 1
    /\ last_op' = "step"
    /\ calls_in_episode' = calls_in_episode + 1
    /\ UNCHANGED <<config, reset_counter, traj_pos_workframe, traj_rpy_workframe,
                   rs_is_array, rs_save_calls, action_in, pose_vars>>

(***************************************************************************)
(* close(), with save_rs_data (lines 252-262, 226-244).  __exit__ calls it  *)
(* too, also when a step ended the run with sys.exit: that one close() is   *)
(* the last thing the process does.                                         *)
(***************************************************************************)
Close ==
    /\ ur5.close < MaxCloses
    /\ last_status = "exit" => last_op # "close"
    /\ rs_is_array' = (IF save_rs_data_flag THEN TRUE ELSE rs_is_array)
    /\ rs_save_calls' = IF save_rs_data_flag THEN rs_save_calls + 1 ELSE rs_save_calls
    /\ rs_vid_out' = IF save_rs_data_flag
                     THEN [rs_vid_out EXCEPT !.release = @ + 1]
                     ELSE rs_vid_out
    /\ ur5' = [ur5 EXCEPT !.close = @ + 1]
    /\ last_op' = "close"
    /\ last_status' = IF last_status = "exit" THEN "exit" ELSE "returned"
    /\ PerCallCleared
    /\ UNCHANGED <<config, env_step_counter, reset_counter, targ_traj_list_id,
                   traj_pos_workframe, traj_rpy_workframe, goal_pos_workframe,
                   goal_rpy_workframe, observation, rs, rs_tracker,
                   calls_in_episode, action_in, steps_completed, pose_vars>>

Next == Step \/ Reset(MaxResets) \/ Close

Spec == Init /\ [][Next]_vars

NextStraight == Step \/ Reset(MaxResetsStraight) \/ Close

SpecStraight == InitStraight /\ [][NextStraight]_vars

(***************************************************************************)
(* The encoders and the scaler on their own: the inputs are drawn from      *)
(* ActVals, ScaleVals and YawVals in every movement and control mode.       *)
(***************************************************************************)
InitAct ==
    /\ InitShape("sin", MovementModes)
    /\ PoseAfterInit(HomeYaw, FALSE)
    /\ max_steps = 2
    /\ traj_n_points = 2
    /\ goal_update_rate = 1

\* step(), lines 559-564: encode the policy action, then scale it
EncodeCall ==
    /\ last_op = "init"
    /\ \E actions \in SeqsOf(ActVals, get_act_dim(movement_mode)), tcp_yaw \in YawVals :
         LET enc == EncodeSelected(movement_mode, actions, tcp_yaw)
         IN  /\ action_in' = [actions |-> actions, tcp_yaw |-> tcp_yaw]
             /\ encoded_actions' = enc
             /\ scaled_actions' = scale_actions(control_mode, enc)
    /\ last_op' = "encode"
    /\ UNCHANGED <<config, env_step_counter, reset_counter, targ_traj_list_id,
                   traj_pos_workframe, traj_rpy_workframe, goal_pos_workframe,
                   goal_rpy_workframe, observation, rs, rs_is_array, ur5,
                   rs_vid_out, rs_save_calls, rs_tracker, last_status, ret_done,
                   calls_in_episode, track_result, no_marker_run, step_trace,
                   steps_completed, pose_vars>>

\* scale_actions on a raw 6-vector
ScaleCall ==
    /\ last_op = "init"
    /\ \E raw \in SeqsOf(ScaleVals, 6) :
         /\ action_in' = [actions |-> raw, tcp_yaw |-> 0]
         /\ encoded_actions' = raw
         /\ scaled_actions' = scale_actions(control_mode, raw)
    /\ last_op' = "scale"
    /\ UNCHANGED <<config, env_step_counter, reset_counter, targ_traj_list_id,
                   traj_pos_workframe, traj_rpy_workframe, goal_pos_workframe,
                   goal_rpy_workframe, observation, rs, rs_is_array, ur5,
                   rs_vid_out, rs_save_calls, rs_tracker, last_status, ret_done,
                   calls_in_episode, track_result, no_marker_run, step_trace,
                   steps_completed, pose_vars>>

NextAct == EncodeCall \/ ScaleCall

SpecAct == InitAct /\ [][NextAct]_vars

(***************************************************************************)
(* get_feature_obs and the driver's pose on their own: the driver may hand  *)
(* out the array it holds or a fresh one, and a command leaves the tool at  *)
(* any yaw of ObsYaws.                                                      *)
(***************************************************************************)
ObsYaws == {-90, -45, 0, 45, 90, 135}

InitObs ==
    /\ InitShape("sin", {"y"})
    /\ control_mode = "TCP_velocity_control"
    /\ max_steps = 2
    /\ traj_n_points = 2
    /\ goal_update_rate = 1
    /\ \E home \in ObsYaws, shared \in BOOLEAN : PoseAfterInit(home, shared)

env_vars == <<config, env_step_counter, reset_counter, targ_traj_list_id,
              traj_pos_workframe, traj_rpy_workframe, goal_pos_workframe,
              goal_rpy_workframe, observation, rs, rs_is_array, encoded_actions,
              scaled_actions, ur5, rs_vid_out, rs_save_calls, rs_tracker,
              ret_done, calls_in_episode, track_result, no_marker_run,
              action_in, step_trace, steps_completed>>

\* get_feature_obs(), lines 631-647
GetFeatureObs ==
    /\ feature_calls < MaxFeatureCalls
    /\ LET r == get_feature_obs(current_TCP_pose, pose_shared)
       IN  /\ current_TCP_pose' = r.current_TCP_pose
           /\ robot_pose' = r.robot_pose
           /\ feature_array' = r.feature_array
    /\ feature_calls' = feature_calls + 1
    /\ last_op' = "get_feature_obs"
    /\ last_status' = "returned"
    /\ UNCHANGED <<env_vars, pose_shared>>

\* a command has run on the driver, which holds the pose it ended at in a
\* new array
DriverCommand ==
    /\ \E yaw \in ObsYaws : current_TCP_pose' = yaw
    /\ feature_calls' = 0
    /\ last_op' = "command"
    /\ last_status' = "returned"
    /\ UNCHANGED <<env_vars, pose_shared, robot_pose, feature_array>>

NextObs == GetFeatureObs \/ DriverCommand

SpecObs == InitObs /\ [][NextObs]_vars

(***************************************************************************)
(* Properties.                                                              *)
(***************************************************************************)
StepReturned == last_op = "step" /\ last_status = "returned"

\* C1: within an episode the k-th step() returns terminated = TRUE exactly
\* when k >= max_steps (k counted by the caller from the last reset()).
C1_TerminatedIffKAtLeastMaxSteps ==
    StepReturned => (ret_done <=> calls_in_episode >= max_steps)

\* C1 witness: the second step of an episode with max_steps = 2 returned TRUE
C1_Witness ==
    /\ StepReturned
    /\ max_steps = 2
    /\ calls_in_episode = 2
    /\ ret_done

GoalInBounds ==
    /\ targ_traj_list_id \in 0..(traj_n_points - 1)
    /\ goal_pos_workframe = traj_pos_workframe[targ_traj_list_id]
    /\ goal_rpy_workframe = traj_rpy_workframe[targ_traj_list_id]

\* C2: within an episode (no reset() in between) the waypoint index never
\* decreases; it always lies in 0..traj_n_points-1 and the goal position and
\* orientation are the rows of the trajectory at that index.
C2_GoalIndexMonotoneInBounds ==
    /\ []GoalInBounds
    /\ [][last_op' # "reset" => targ_traj_list_id' >= targ_traj_list_id]_vars

\* C2 witness: with three waypoints and a goal advance on every step, a
\* second step found the index already clamped at the last waypoint
C2_Witness ==
    /\ last_op = "step"
    /\ traj_n_points = 3
    /\ goal_update_rate = 1
    /\ env_step_counter = 2
    /\ targ_traj_list_id = 2
    /\ goal_pos_workframe = traj_pos_workframe[2]

\* the last k entries of the fusion log are "absent" entries
AbsentTail(k) ==
    /\ Len(rs.cam_centroids) >= k
    /\ Len(rs.cam_poses) >= k
    /\ \A i \in 1..Len(rs.cam_centroids) :
         i > Len(rs.cam_centroids) - k =>
            /\ rs.cam_centroids[i] = None
            /\ rs.base_centroids[i] = None
            /\ rs.cam_poses[i] = None
            /\ rs.base_poses[i] = None

\* C3: with fusion logging enabled, when the tracker has reported no marker
\* on the last k (1 <= k <= 5) consecutive step() calls of an open session,
\* none of them aborted or raised, the log gained k absent entries and the
\* step counter reached at least k.
C3_NoMarkerTicksContinue ==
    (save_rs_data_flag /\ last_op = "step" /\ ~rs_is_array /\ no_marker_run \in 1..5)
        => /\ last_status = "returned"
           /\ AbsentTail(no_marker_run)
           /\ env_step_counter >= no_marker_run

\* C4: a close() issued after a first close() has no further effect: the
\* fusion log keeps its content, and neither the video writer nor the robot
\* driver is released or closed again.
C4_SecondCloseHasNoEffect ==
    [][(ur5.close >= 1 /\ last_op' = "close")
         => /\ rs' = rs
            /\ rs_vid_out'.release = rs_vid_out.release
            /\ ur5'.close = ur5.close]_vars

\* C5: a step() made once the episode is terminated (step counter >=
\* max_steps, no reset() since) or after close() dispatches no command to
\* the robot driver, does not increment the step counter and does not append
\* to the fusion log.
C5_StepOnlyWhenActive ==
    [][(last_op' = "step" /\ (env_step_counter >= max_steps \/ ur5.close >= 1))
         => /\ ur5' = ur5
            /\ env_step_counter' = env_step_counter
            /\ rs' = rs]_vars

Scaled == last_op \in {"scale", "encode"}

\* C6 (as claimed): in position control the scaled x, y, z, roll and pitch
\* are exactly 0 for every raw 6-vector.
C6_PositionControlOnlyYaw ==
    (Scaled /\ control_mode = "TCP_position_control")
        => \A i \in 1..5 : scaled_actions[i] = 0

\* C6 (amended): in position control the scaled z, roll and pitch are
\* exactly 0 for every raw 6-vector, while x and y range over +-1 mm
\* (max_pos_change) and yaw over +-1 degree (max_ang_change): an input at or
\* beyond max_action gives the largest command, one at or below min_action
\* the smallest.
C6_PositionControlRanges ==
    (Scaled /\ control_mode = "TCP_position_control")
        => /\ \A i \in 3..5 : scaled_actions[i] = 0
           /\ \A i \in {1, 2} :
                /\ scaled_actions[i] \in (-max_pos_change)..max_pos_change
                /\ encoded_actions[i] >= max_action => scaled_actions[i] = max_pos_change
                /\ encoded_actions[i] <= min_action => scaled_actions[i] = -max_pos_change
           /\ scaled_actions[6] \in (-max_ang_change)..max_ang_change

\* C6 witness: position control scaled a raw vector to a nonzero translation
C6_Witness ==
    /\ last_op = "scale"
    /\ control_mode = "TCP_position_control"
    /\ scaled_actions[1] = max_pos_change
    /\ scaled_actions[2] = -max_pos_change
    /\ scaled_actions[3] = 0

\* C7: in both control modes scale_actions returns exactly 0 on z, roll and
\* pitch (the axes whose range is min = max = 0) for every input, also one
\* outside [min_action, max_action]; its only divisor, max_action -
\* min_action, is not zero.
C7_DegenerateAxesScaleToZero ==
    Scaled => /\ input_range # 0
              /\ \A i \in 3..5 :
                   /\ ActRange(control_mode)[i] = <<0, 0>>
                   /\ scaled_actions[i] = 0

\* C7 witness: velocity control scaled inputs outside the action range on z,
\* roll and pitch
C7_Witness ==
    /\ last_op = "scale"
    /\ control_mode = "TCP_velocity_control"
    /\ action_in.actions[3] > max_action
    /\ action_in.actions[4] < min_action
    /\ action_in.actions[5] > max_action
    /\ scaled_actions[3] = 0

\* C8: in every movement mode, for every action of the mode's length
\* (get_act_dim), the encoded action step() selects has length 6 with z,
\* roll and pitch exactly 0, and yaw exactly 0 in mode y.
C8_EncodedUnusedAxesZero ==
    last_op = "encode"
        => /\ Len(action_in.actions) = get_act_dim(movement_mode)
           /\ Len(encoded_actions) = 6
           /\ \A i \in 3..5 : encoded_actions[i] = 0
           /\ movement_mode = "y" => encoded_actions[6] = 0

\* C8 witness: mode y encoded a nonzero lateral action
C8_Witness ==
    /\ last_op = "encode"
    /\ movement_mode = "y"
    /\ action_in.actions[1] # 0
    /\ encoded_actions[2] = action_in.actions[1]
    /\ encoded_actions[1] = max_action

\* the entry of traj_angs the claim names: floor(e / 2) mod 4
CycledAngle(e) == traj_angs[((e \div 2) % Len(traj_angs)) + 1]

\* C9: for the straight shape every reset() succeeds, whatever the episode
\* index e = reset_counter, and the trajectory is laid out along the angle
\* traj_angs[floor(e / 2) mod 4].
C9_StraightAngleCycles ==
    (traj_type = "straight" /\ last_op = "reset")
        => /\ last_status = "returned"
           /\ \A i \in DOMAIN traj_pos_workframe :
                /\ traj_pos_workframe[i].shape = "straight"
                /\ traj_pos_workframe[i].variant = CycledAngle(reset_counter)

\* C10: whatever the state before, a reset() leaves the step counter at 0,
\* the episode index one greater, the waypoint index at 1; it sends exactly
\* one reset command (and nothing else) to the robot driver and leaves the
\* fusion log as it was.
C10_ResetEffect ==
    [][last_op' = "reset"
         => /\ env_step_counter' = 0
            /\ reset_counter' = reset_counter + 1
            /\ targ_traj_list_id' = 1
            /\ goal_pos_workframe' = traj_pos_workframe'[1]
            /\ ur5' = [ur5 EXCEPT !.reset = @ + 1]
            /\ rs' = rs]_vars

\* C10 witness: a reset() after a terminated episode whose goal had reached
\* index 2, with entries in the fusion log
C10_Witness ==
    /\ last_op = "reset"
    /\ last_status = "returned"
    /\ traj_n_points = 3
    /\ goal_update_rate = 1
    /\ Len(rs.corners) >= 2
    /\ Len(rs.corners) >= max_steps
    /\ env_step_counter = 0
    /\ targ_traj_list_id = 1
    /\ reset_counter = 1

\* the faults of spec section 7(c): camera capture failure, distance out of
\* range, several markers in view
HardwareFaults == {"ColorFrameError", "DepthFrameError", "DistanceError",
                   "MultipleMarkersDetected"}

\* C11: a step() in which track() fails with a camera capture error, a
\* distance error or a multiple-markers error ends the run inside that step
\* (sys.exit: step() returns nothing), has called track() exactly once, and
\* appends nothing to any of the fusion-log lists nor a video frame.
C11_HardwareFaultAborts ==
    [][(last_op' = "step" /\ track_result'.raised \in HardwareFaults)
         => /\ last_status' = "exit"
            /\ ret_done' = ret_done
            /\ rs_tracker'.track = rs_tracker.track + 1
            /\ rs' = rs
            /\ rs_vid_out' = rs_vid_out]_vars

\* C11 witness: a second step aborted on MultipleMarkersDetected after a
\* first step had logged a tick
C11_Witness ==
    /\ last_op = "step"
    /\ last_status = "exit"
    /\ track_result.raised = "MultipleMarkersDetected"
    /\ env_step_counter = 2
    /\ rs_tracker.track = 2
    /\ Len(rs.corners) = 1

Min(a, b) == IF a <= b THEN a ELSE b

\* C12: after the k-th step() of an episode has returned (k = 0: after the
\* reset()), the waypoint index is min(1 + floor(k / goal_update_rate),
\* traj_n_points - 1); a step moves the index up by one, clamped at the last
\* index, exactly when its step counter is a multiple of goal_update_rate,
\* and leaves it alone otherwise.
C12_GoalIndexClosedForm ==
    /\ []((StepReturned \/ (last_op \in {"init", "reset"} /\ last_status = "returned"))
            => targ_traj_list_id =
                 Min(1 + (calls_in_episode \div goal_update_rate), traj_n_points - 1))
    /\ [][last_op' = "step"
            => targ_traj_list_id' =
                 IF env_step_counter' % goal_update_rate = 0
                 THEN Min(targ_traj_list_id + 1, traj_n_points - 1)
                 ELSE targ_traj_list_id]_vars

\* C12 witness: with a rate of 2 and three waypoints, the third step of an
\* episode returned with the index advanced once, on the second step
C12_Witness ==
    /\ StepReturned
    /\ goal_update_rate = 2
    /\ traj_n_points = 3
    /\ calls_in_episode = 3
    /\ env_step_counter = 3
    /\ targ_traj_list_id = 2

Dispatches == {"apply_position_action", "apply_velocity_action"}

Positions(tr, events) == {i \in 1..Len(tr) : tr[i] \in events}

\* every occurrence of an event of `first` comes before every one of `then`
InOrder(tr, first, then) ==
    \A i \in Positions(tr, first), j \in Positions(tr, then) : i < j

\* C13: a step() sends exactly one command, to the position entry point in
\* TCP_position_control and to the velocity entry point otherwise, then reads
\* the observation once, then advances the goal if the advance is due, then
\* appends at most one tick to the fusion log; the observation it stores is
\* built from the goal as it was before the advance.
C13_StepOrder ==
    [][last_op' = "step"
         => /\ Cardinality(Positions(step_trace', Dispatches)) = 1
            /\ step_trace'[1] = (IF control_mode = "TCP_position_control"
                                 THEN "apply_position_action"
                                 ELSE "apply_velocity_action")
            /\ ur5'.position - ur5.position
                 = (IF control_mode = "TCP_position_control" THEN 1 ELSE 0)
            /\ ur5'.velocity - ur5.velocity
                 = (IF control_mode = "TCP_velocity_control" THEN 1 ELSE 0)
            /\ Cardinality(Positions(step_trace', {"get_observation"})) = 1
            /\ Cardinality(Positions(step_trace', {"update_goal"}))
                 = (IF env_step_counter' % goal_update_rate = 0 THEN 1 ELSE 0)
            /\ Cardinality(Positions(step_trace', {"append"})) <= 1
            /\ Cardinality(Positions(step_trace', {"append"}))
                 = Len(rs'.corners) - Len(rs.corners)
            /\ InOrder(step_trace', Dispatches, {"get_observation"})
            /\ InOrder(step_trace', {"get_observation"}, {"update_goal"})
            /\ InOrder(step_trace', {"update_goal"}, {"append"})
            /\ InOrder(step_trace', {"get_observation"}, {"append"})
            /\ observation' = get_observation(goal_pos_workframe, goal_rpy_workframe)]_vars

\* C13 witness: a velocity-controlled step returned after all four stages,
\* and the observation it returned carries a goal the advance has replaced
C13_Witness ==
    /\ StepReturned
    /\ control_mode = "TCP_velocity_control"
    /\ step_trace = <<"apply_velocity_action", "get_observation", "update_goal",
                      "track", "append">>
    /\ observation.goal_pos # goal_pos_workframe

LogLists == {"corners", "ids", "centroids", "cam_centroids", "base_centroids",
             "cam_poses", "base_poses"}

\* C14: until close(), each of the seven lists of the fusion log is as long
\* as the number of step() calls that have returned in the session, over all
\* episodes; in every entry the base-frame centroid is absent exactly when
\* the camera-frame centroid is, and likewise the pose; a reset() leaves the
\* log as it is.
C14_LogLengthIsStepsCompleted ==
    /\ [](ur5.close = 0
            => /\ \A l \in LogLists : Len(rs[l]) = steps_completed
               /\ \A i \in 1..Len(rs.cam_centroids) :
                    /\ (rs.base_centroids[i] = None) <=> (rs.cam_centroids[i] = None)
                    /\ (rs.base_poses[i] = None) <=> (rs.cam_poses[i] = None))
    /\ [][last_op' = "reset" => rs' = rs]_vars

\* C14 witness: a second episode has begun with two ticks in the log, one of
\* them without a centroid but with a pose, another with neither
C14_Witness ==
    /\ ur5.close = 0
    /\ reset_counter = 1
    /\ last_op = "reset"
    /\ steps_completed = 2
    /\ Len(rs.base_poses) = 2
    /\ \E i \in 1..2 : rs.cam_centroids[i] = None /\ rs.cam_poses[i] # None
    /\ \E i \in 1..2 : rs.cam_centroids[i] = None /\ rs.cam_poses[i] = None

\* C15: get_feature_obs leaves the pose it obtained from the driver as it
\* was, the driver's current_TCP_pose too, and a call that follows another
\* with no command in between returns the same TCP yaw feature.
C15_FeatureObsLeavesPose ==
    [][last_op' = "get_feature_obs"
         => /\ robot_pose'.left = robot_pose'.obtained
            /\ current_TCP_pose' = current_TCP_pose
            /\ (feature_calls >= 1 => feature_array' = feature_array)]_vars

====
